---- MODULE Spec2Model ----
(***************************************************************************)
(* A model of the MLB Elo rating engine of this repository:                *)
(*   calculate_advanced_elo_aws.py  (load_all_games, calculate_elo,        *)
(*                                   update_elo, the overlay lookups)      *)
(*   calculate_elo_across_years.py  (the plain update_elo)                 *)
(*                                                                         *)
(* Ratings are Python floats in the source.  Here they are fixed-point     *)
(* integers in thousandths of a rating point (Milli), probabilities are    *)
(* in ten-thousandths (Prob), and every division truncates.  The two       *)
(* powers (10 ** x and x ** 0.8) are evaluated from tables of their        *)
(* values.  IEEE-754 rounding of the float operations is not modelled.     *)
(***************************************************************************)
EXTENDS Integers, Sequences, FiniteSets, TLC

\* ------------------------------------------------------------------------
\* Number representation
\* ------------------------------------------------------------------------
\* one rating point, in the model's unit
Milli == 1000
\* probability 1, in the model's unit
Prob == 10000

Abs(x) == IF x < 0 THEN -x ELSE x

\* round(x, 2): x in thousandths, result in thousandths and a multiple of 10,
\* nearest hundredth, a tie going to the even hundredth
Round2(x) ==
    LET q == x \div 10
        r == x % 10
    IN  IF r < 5 THEN q * 10
        ELSE IF r > 5 THEN (q + 1) * 10
        ELSE IF q % 2 = 0 THEN q * 10 ELSE (q + 1) * 10

\* ------------------------------------------------------------------------
\* Elo parameters
\* ------------------------------------------------------------------------
base_k == 20
home_field_advantage == 35
\* ratings = {team: 1500 ...} and ratings.get(team, 1500)
default_rating == 1500

HFA == home_field_advantage * Milli
StartRating == default_rating * Milli

\* ------------------------------------------------------------------------
\* expected_score and update_elo
\* ------------------------------------------------------------------------
\* 10 ** (20*i/400) * Prob, i = 0..19
Pow10Coarse ==
    << 10000, 11220, 12589, 14125, 15849, 17783, 19953, 22387, 25119, 28184,
       31623, 35481, 39811, 44668, 50119, 56234, 63096, 70795, 79433, 89125 >>
\* 10 ** (j/400) * Prob, j = 0..19
Pow10Fine ==
    << 10000, 10058, 10116, 10174, 10233, 10292, 10351, 10411, 10471, 10532,
       10593, 10654, 10715, 10777, 10839, 10902, 10965, 11028, 11092, 11156 >>
\* n ** 0.8 * Milli, n = 1..16
Pow08 ==
    << 1000, 1741, 2408, 3031, 3624, 4193, 4743, 5278, 5800, 6310,
       6809, 7300, 7783, 8259, 8727, 9190 >>

RECURSIVE Pow10Int(_)
Pow10Int(q) == IF q = 0 THEN 1 ELSE 10 * Pow10Int(q - 1)

\* 10 ** (p/400) * Prob for a whole number p >= 0 of rating points
Pow10Points(p) ==
    Pow10Int(p \div 400)
      * ((Pow10Coarse[((p % 400) \div 20) + 1] * Pow10Fine[(p % 20) + 1]) \div Prob)

\* 10 ** (x/400) * Prob for x in thousandths of a point, either sign;
\* between whole points the value is interpolated
Pow10_400(x) ==
    LET a  == Abs(x)
        p  == a \div Milli
        f  == a % Milli
        lo == Pow10Points(p)
        hi == Pow10Points(p + 1)
        up == lo + ((hi - lo) * f) \div Milli
    IN  IF x >= 0 THEN up ELSE (Prob * Prob) \div up

\* def expected_score(r1, r2): return 1 / (1 + 10 ** ((r2 - r1) / 400))
expected_score(r1, r2) == (Prob * Prob) \div (Prob + Pow10_400(r2 - r1))

\* the amount k * (1 - exp) of update_elo, in thousandths of a point
EloDelta(r1, r2, score_diff) ==
    LET den == 7500 + (6 * Abs(r1 - r2)) \div Milli
        mov_multiplier == (Pow08[Abs(score_diff) + 1] * Prob) \div den
        k   == (base_k * mov_multiplier) \div 10
        exp == expected_score(r1, r2)
    IN  (k * (Prob - exp)) \div Prob

\* a slip: the loser side loses k * exp instead of k * (1 - exp)
update_elo_loser_exp(r1, r2, score_diff) ==
    LET den == 7500 + (6 * Abs(r1 - r2)) \div Milli
        mov_multiplier == (Pow08[Abs(score_diff) + 1] * Prob) \div den
        k   == (base_k * mov_multiplier) \div 10
        exp == expected_score(r1, r2)
    IN  << r1 + (k * (Prob - exp)) \div Prob, r2 - (k * exp) \div Prob >>

\* def update_elo(r1, r2, score_diff):
\*     return r1 + k * (1 - exp), r2 - k * (1 - exp)
update_elo(r1, r2, score_diff) ==
    << r1 + EloDelta(r1, r2, score_diff), r2 - EloDelta(r1, r2, score_diff) >>

\* calculate_elo_across_years.py: def update_elo(winner, loser, k=20)
update_elo_years(winner, loser) ==
    LET exp == expected_score(winner, loser)
    IN  << winner + (base_k * Milli * (Prob - exp)) \div Prob,
           loser  - (base_k * Milli * (Prob - exp)) \div Prob >>

\* ------------------------------------------------------------------------
\* Teams, scores, dates, rows of the game frame
\* ------------------------------------------------------------------------
\* some values of TEAM_ABBREV_MAP (the configured league set)
LeagueCodes == {"NYY", "BOS"}
\* a Retrosheet code that is no value of TEAM_ABBREV_MAP
NonLeagueCodes == {"NYA"}
AllCodes == LeagueCodes \cup NonLeagueCodes
\* str.lower() of a team code
Lower == [c \in AllCodes |->
            IF c = "NYY" THEN "nyy" ELSE IF c = "BOS" THEN "bos" ELSE "nya"]

\* A score is a Python int (num, value v) or a str (not num; v orders the
\* texts as Python orders strings).
IntScore(n) == [num |-> TRUE, v |-> n]
StrScore(k) == [num |-> FALSE, v |-> k]
\* hs > vs raises TypeError between an int and a str
Comparable(a, b) == a.num = b.num
Greater(a, b) == a.v > b.v
\* hs - vs raises TypeError between two str
Subtractable(a, b) == a.num /\ b.num

\* home and away score of the games tried: a home win, an away win, a tie
NumericLines ==
    { <<IntScore(3), IntScore(1)>>, <<IntScore(1), IntScore(3)>>,
      <<IntScore(2), IntScore(2)>> }
\* a non-numeric text in the home, the away or both score fields
NonNumericLines ==
    { <<StrScore(1), IntScore(1)>>, <<IntScore(3), StrScore(1)>>,
      <<StrScore(1), StrScore(1)>> }

\* A date is year * 1000 + day of the year; NaT is the null date.
NaT == 0
Year(d) == d \div 1000
HistDates == {2024100}
SchedDates == {2025100, 2026100}

\* the probable pitcher each club names, and the notes tried
ProbablePitcher == [c \in LeagueCodes |-> IF c = "NYY" THEN "cole" ELSE "sale"]
NoPitchers == <<"", "">>
\* a note is modelled by the set of lower-case team codes it contains
Notes == { {}, {"nyy"}, {"bos"} }

\* rows of the Retrosheet frame (any code, no pitchers or note column)
HistRows ==
    { r \in { [date |-> d, home_team |-> h, away_team |-> a,
               home_score |-> l[1], away_score |-> l[2],
               pitchers |-> NoPitchers, injury_note |-> {}] :
                 d \in HistDates, h \in AllCodes, a \in AllCodes,
                 l \in NumericLines \cup NonNumericLines } :
        r.home_team # r.away_team }
\* rows of the schedule frame after the league filter of load_all_games
SchedRows ==
    { r \in { [date |-> d, home_team |-> h, away_team |-> a,
               home_score |-> l[1], away_score |-> l[2],
               pitchers |-> <<ProbablePitcher[h], ProbablePitcher[a]>>,
               injury_note |-> n] :
                 d \in SchedDates, h \in LeagueCodes, a \in LeagueCodes,
                 l \in NumericLines, n \in Notes } :
        r.home_team # r.away_team }

\* ------------------------------------------------------------------------
\* dict helpers
\* ------------------------------------------------------------------------
Put(f, k, v) == [y \in DOMAIN f \cup {k} |-> IF y = k THEN v ELSE f[y]]
Get(f, k, d) == IF k \in DOMAIN f THEN f[k] ELSE d
Bump(f, k) == Put(f, k, Get(f, k, 0) + 1)

\* ------------------------------------------------------------------------
\* The stats provider (statsapi) and the two overlay lookups
\* ------------------------------------------------------------------------
\* What statsapi.lookup_player / player_stat_data answer for a pitcher name:
\* an exception, no such player, or a season ERA (in tenths of a run).
EraResponses ==
    { [kind |-> "error", era |-> 0], [kind |-> "none", era |-> 0],
      [kind |-> "found", era |-> 30], [kind |-> "found", era |-> 50] }
\* What statsapi answers for a club's injured roster: an exception, or a
\* roster of il players.
RosterResponses ==
    { [kind |-> "error", il |-> 0], [kind |-> "ok", il |-> 3],
      [kind |-> "ok", il |-> 4] }
\* the provider is not asked
NoEra == [kind |-> "unused", era |-> 0]
NoRoster == [kind |-> "unused", il |-> 0]

\* the ERA bands of get_pitcher_era_adjustment; era in tenths
EraAdjustment(era) ==
    IF era <= 30 THEN 15
    ELSE IF era <= 40 THEN 5
    ELSE IF era >= 50 THEN -10
    ELSE 0

\* a slip: the except branch returns 0 and leaves the cache alone
get_pitcher_era_adjustment_error_uncached(cache, name, resp) ==
    IF name \in DOMAIN cache
    THEN [adj |-> cache[name], cache |-> cache, called |-> FALSE]
    ELSE IF resp.kind = "found"
    THEN [adj |-> EraAdjustment(resp.era),
          cache |-> Put(cache, name, EraAdjustment(resp.era)), called |-> TRUE]
    ELSE IF resp.kind = "none"
    THEN [adj |-> 0, cache |-> Put(cache, name, 0), called |-> TRUE]
    ELSE [adj |-> 0, cache |-> cache, called |-> TRUE]

\* get_pitcher_era_adjustment(name) on the cache `cache`, the provider
\* answering resp if it is asked: the delta returned, the cache afterwards,
\* and whether the provider was invoked.
get_pitcher_era_adjustment(cache, name, resp) ==
    IF name \in DOMAIN cache
    THEN [adj |-> cache[name], cache |-> cache, called |-> FALSE]
    ELSE IF resp.kind = "found"
    THEN [adj |-> EraAdjustment(resp.era),
          cache |-> Put(cache, name, EraAdjustment(resp.era)), called |-> TRUE]
    ELSE IF resp.kind = "none"
    THEN [adj |-> 0, cache |-> Put(cache, name, 0), called |-> TRUE]
    ELSE [adj |-> 0, cache |-> Put(cache, name, 0), called |-> TRUE]

\* a slip: a provider error is charged as a long injured list
get_injury_penalty_error_charged(team_abbr, resp) ==
    IF team_abbr \notin LeagueCodes THEN 0
    ELSE IF resp.kind = "error" THEN -10
    ELSE IF resp.il > 3 THEN -10 ELSE 0

\* get_injury_penalty(team_abbr), the provider answering resp
get_injury_penalty(team_abbr, resp) ==
    IF team_abbr \notin LeagueCodes THEN 0
    ELSE IF resp.kind = "error" THEN 0
    ELSE IF resp.il > 3 THEN -10 ELSE 0

\* whether get_injury_penalty(team_abbr) reaches the provider
AsksRoster(team_abbr) == team_abbr \in LeagueCodes

\* a slip: every season from the window's year on gets the overlays
ApplyAdjustmentsFrom(year) == year >= 2025

\* apply_adjustments = year == 2025
ApplyAdjustments(year) == year = 2025

\* game_date.strftime('%Y-%m-%d'), as the pair (year, day of the year)
Strftime(d) == <<Year(d), d % 1000>>

\* ------------------------------------------------------------------------
\* State
\* ------------------------------------------------------------------------
VARIABLES
    ratings,            \* calculate_elo: ratings, team -> rating
    updated_rows,       \* calculate_elo: updated_rows
    pitcher_era_cache,  \* the module-level cache, name -> delta
    table,              \* the DynamoDB table, (team, date) -> item
    persisted,          \* the rows of elo_ratings_by_game.csv written at the end
    pc,                 \* "loop", "aborted" (uncaught exception) or "saved"
    df,                 \* the frame calculate_elo iterates over
    idx,                \* how many rows of df iterrows has yielded
    arrived,            \* history: the rows load_all_games concatenated, as they came
    provider_calls,     \* history: name -> lookups sent to the provider
    roster_calls,       \* history: team -> roster requests sent to the provider
    first_adj,          \* history: name -> the first lookup of the name
    first_penalty,      \* history: team -> its first get_injury_penalty
    last,               \* history: the latest loop iteration, step by step
    call                \* the latest direct call of an update rule

vars == << ratings, updated_rows, pitcher_era_cache, table, persisted, pc, df,
           idx, arrived, provider_calls, roster_calls, first_adj,
           first_penalty, last, call >>

\* how many rows a run iterates over
MaxGames == 2

NoRow ==
    [date |-> NaT, home_team |-> "", away_team |-> "",
     home_score |-> IntScore(0), away_score |-> IntScore(0),
     pitchers |-> NoPitchers, injury_note |-> {}]

NoLast ==
    [kind |-> "none", game |-> NoRow, apply |-> FALSE,
     pre_home |-> 0, pre_away |-> 0, had_home |-> FALSE, had_away |-> FALSE,
     home_pitcher_adj |-> 0, away_pitcher_adj |-> 0,
     home_injury_adj |-> 0, away_injury_adj |-> 0,
     era_home |-> "unused", era_away |-> "unused",
     roster_home |-> NoRoster, roster_away |-> NoRoster,
     home_adj |-> 0, away_adj |-> 0, home_new |-> 0, away_new |-> 0,
     update_called |-> FALSE, rows_before |-> 0, prev_date |-> NaT]

NoCall == [fn |-> "none", r1 |-> 0, r2 |-> 0, score_diff |-> 0,
           new1 |-> 0, new2 |-> 0]

\* ratings = {team: 1500 for team in TEAM_ABBREV_MAP.values()}
InitRatings == [t \in LeagueCodes |-> StartRating]

InitLoop ==
    /\ ratings = InitRatings
    /\ updated_rows = << >>
    /\ pitcher_era_cache = << >>
    /\ table = << >>
    /\ persisted = << >>
    /\ pc = "loop"
    /\ idx = 0
    /\ provider_calls = << >>
    /\ roster_calls = << >>
    /\ first_adj = << >>
    /\ first_penalty = << >>
    /\ last = NoLast
    /\ call = NoCall

\* ------------------------------------------------------------------------
\* One iteration of the loop of calculate_elo
\* ------------------------------------------------------------------------
\* a slip: the home-field advantage stays in the rating that is stored
StripHFA_missing(home_new) == home_new

\* home_elo = home_new - home_field_advantage
StripHFA(home_new) == home_new - HFA

\* Everything one iteration computes for row g from the current ratings and
\* cache, the provider answering eh, ea (pitchers) and ih, ia (rosters).
Game(g, eh, ea, ih, ia) ==
    LET apply == ApplyAdjustments(Year(g.date))
        home  == g.home_team
        away  == g.away_team
        hs    == g.home_score
        vs    == g.away_score
        home_pitcher == IF apply THEN g.pitchers[1] ELSE ""
        away_pitcher == IF apply THEN g.pitchers[2] ELSE ""
        L1 == IF apply
              THEN get_pitcher_era_adjustment(pitcher_era_cache, home_pitcher, eh)
              ELSE [adj |-> 0, cache |-> pitcher_era_cache, called |-> FALSE]
        L2 == IF apply
              THEN get_pitcher_era_adjustment(L1.cache, away_pitcher, ea)
              ELSE [adj |-> 0, cache |-> L1.cache, called |-> FALSE]
        home_penalty == IF apply THEN get_injury_penalty(home, ih) ELSE 0
        away_penalty == IF apply THEN get_injury_penalty(away, ia) ELSE 0
        home_injury_adj == home_penalty
        away_injury_adj == IF apply /\ Lower[away] \in g.injury_note
                           THEN away_penalty - 10
                           ELSE away_penalty
        pre_home == Get(ratings, home, StartRating)
        pre_away == Get(ratings, away, StartRating)
        home_elo == pre_home + (L1.adj + home_injury_adj) * Milli
        away_elo == pre_away + (L2.adj + away_injury_adj) * Milli
        home_adj == home_elo + HFA
        away_adj == away_elo
        home_win == Comparable(hs, vs) /\ Greater(hs, vs)
        away_win == Comparable(hs, vs) /\ Greater(vs, hs)
        type_error == \/ ~Comparable(hs, vs)
                      \/ (home_win \/ away_win) /\ ~Subtractable(hs, vs)
        new == IF type_error THEN << home_adj, away_adj >>
               ELSE IF home_win THEN update_elo(home_adj, away_adj, hs.v - vs.v)
               ELSE IF away_win
               THEN LET u == update_elo(away_adj, home_adj, vs.v - hs.v)
                    IN  << u[2], u[1] >>
               ELSE << home_adj, away_adj >>
        home_elo_post == IF home_win \/ away_win THEN StripHFA(new[1])
                         ELSE home_elo
        away_elo_post == IF home_win \/ away_win THEN new[2] ELSE away_elo
    IN  [ apply |-> apply, type_error |-> type_error,
          home_pitcher |-> home_pitcher, away_pitcher |-> away_pitcher,
          L1 |-> L1, L2 |-> L2,
          home_penalty |-> home_penalty, away_penalty |-> away_penalty,
          home_injury_adj |-> home_injury_adj,
          away_injury_adj |-> away_injury_adj,
          pre_home |-> pre_home, pre_away |-> pre_away,
          home_adj |-> home_adj, away_adj |-> away_adj,
          home_new |-> new[1], away_new |-> new[2],
          update_called |-> (home_win \/ away_win) /\ ~type_error,
          home_elo |-> home_elo_post, away_elo |-> away_elo_post ]

\* ratings[home] = home_elo; ratings[away] = away_elo
WriteLedger(r, home, home_elo, away, away_elo) ==
    Put(Put(r, home, home_elo), away, away_elo)

\* the dict appended to updated_rows
ResultRow(g, G, r) ==
    [ date |-> Strftime(g.date),
      home_team |-> g.home_team, away_team |-> g.away_team,
      home_score |-> g.home_score, away_score |-> g.away_score,
      home_elo_post_raw |->
          Round2(r[g.home_team] - (G.L1.adj + G.home_injury_adj) * Milli),
      away_elo_post_raw |->
          Round2(r[g.away_team] - (G.L2.adj + G.away_injury_adj) * Milli),
      home_elo_post |-> Round2(G.home_elo),
      away_elo_post |-> Round2(G.away_elo) ]

\* the two table.put_item calls of a 2025 game
PutItems(t, g, G, r) ==
    LET date == Strftime(g.date)
        home_item == [elo |-> Round2(G.home_elo),
                      elo_raw |-> Round2(Get(r, g.home_team, StartRating))]
        away_item == [elo |-> Round2(G.away_elo),
                      elo_raw |-> Round2(Get(r, g.away_team, StartRating))]
    IN  Put(Put(t, << g.home_team, date >>, home_item),
            << g.away_team, date >>, away_item)

\* the latest date among the rows already applied to the ledger
PrevDate == IF last.kind = "none" THEN NaT
            ELSE IF last.game.date > last.prev_date THEN last.game.date
            ELSE last.prev_date

\* the history variables after the lookups of one iteration
CountLookups(g, G, eh, ea, ih, ia) ==
    LET calls1 == IF G.L1.called THEN Bump(provider_calls, G.home_pitcher)
                  ELSE provider_calls
        first1 == IF G.apply /\ G.home_pitcher \notin DOMAIN first_adj
                  THEN Put(first_adj, G.home_pitcher,
                           [adj |-> G.L1.adj, kind |-> eh.kind])
                  ELSE first_adj
        ros1 == IF G.apply /\ AsksRoster(g.home_team)
                THEN Bump(roster_calls, g.home_team) ELSE roster_calls
        pen1 == IF G.apply /\ g.home_team \notin DOMAIN first_penalty
                THEN Put(first_penalty, g.home_team,
                         [penalty |-> G.home_penalty, kind |-> ih.kind])
                ELSE first_penalty
    IN  [ provider_calls |->
              IF G.L2.called THEN Bump(calls1, G.away_pitcher) ELSE calls1,
          first_adj |->
              IF G.apply /\ G.away_pitcher \notin DOMAIN first1
              THEN Put(first1, G.away_pitcher,
                       [adj |-> G.L2.adj, kind |-> ea.kind])
              ELSE first1,
          roster_calls |->
              IF G.apply /\ AsksRoster(g.away_team)
              THEN Bump(ros1, g.away_team) ELSE ros1,
          first_penalty |->
              IF G.apply /\ g.away_team \notin DOMAIN pen1
              THEN Put(pen1, g.away_team,
                       [penalty |-> G.away_penalty, kind |-> ia.kind])
              ELSE pen1 ]

\* the record of one iteration kept in `last`
Seen(g, G, eh, ea, ih, ia, kind) ==
    [ kind |-> kind, game |-> g, apply |-> G.apply,
      pre_home |-> G.pre_home, pre_away |-> G.pre_away,
      had_home |-> g.home_team \in DOMAIN ratings,
      had_away |-> g.away_team \in DOMAIN ratings,
      home_pitcher_adj |-> G.L1.adj, away_pitcher_adj |-> G.L2.adj,
      home_injury_adj |-> G.home_injury_adj,
      away_injury_adj |-> G.away_injury_adj,
      era_home |-> IF G.apply /\ ~G.L1.called THEN "cached" ELSE eh.kind,
      era_away |-> IF G.apply /\ ~G.L2.called THEN "cached" ELSE ea.kind,
      roster_home |-> ih, roster_away |-> ia,
      home_adj |-> G.home_adj, away_adj |-> G.away_adj,
      home_new |-> G.home_new, away_new |-> G.away_new,
      update_called |-> G.update_called,
      rows_before |-> Len(updated_rows), prev_date |-> PrevDate ]

\* The body of `for _, game in df.iterrows()` for row g.
Iterate(g, eh, ea, ih, ia) ==
    IF g.date = NaT
    THEN \* `if pd.isnull(game['date']): continue`
         /\ last' = [NoLast EXCEPT !.kind = "skipped", !.game = g,
                                   !.rows_before = Len(updated_rows),
                                   !.prev_date = PrevDate]
         /\ UNCHANGED << ratings, updated_rows, pitcher_era_cache, table,
                         persisted, pc, provider_calls, roster_calls,
                         first_adj, first_penalty, call >>
    ELSE \E G \in {Game(g, eh, ea, ih, ia)} :
         \E H \in {CountLookups(g, G, eh, ea, ih, ia)} :
         \E r1 \in {WriteLedger(ratings, g.home_team, G.home_elo,
                                g.away_team, G.away_elo)} :
           /\ pitcher_era_cache' = G.L2.cache
           /\ provider_calls' = H.provider_calls
           /\ first_adj' = H.first_adj
           /\ roster_calls' = H.roster_calls
           /\ first_penalty' = H.first_penalty
           /\ UNCHANGED << persisted, call >>
           /\ IF G.type_error
              THEN \* TypeError from `hs > vs` or `hs - vs`: nothing
                   \* catches it, calculate_elo ends here
                   /\ pc' = "aborted"
                   /\ last' = Seen(g, G, eh, ea, ih, ia, "aborted")
                   /\ UNCHANGED << ratings, updated_rows, table >>
              ELSE /\ pc' = pc
                   /\ ratings' = r1
                   /\ updated_rows' = Append(updated_rows, ResultRow(g, G, r1))
                   /\ table' = IF Year(g.date) = 2025
                               THEN PutItems(table, g, G, r1) ELSE table
                   /\ last' = Seen(g, G, eh, ea, ih, ia, "applied")

\* the provider's possible answers to the lookups row g makes
EraChoices(cache, g, side) ==
    IF ApplyAdjustments(Year(g.date)) /\ g.pitchers[side] \notin DOMAIN cache
    THEN EraResponses ELSE {NoEra}
RosterChoices(g, team) ==
    IF ApplyAdjustments(Year(g.date)) /\ AsksRoster(team)
    THEN RosterResponses ELSE {NoRoster}

\* iterrows yields row g and the loop body runs on it
Yield(g) ==
    \E eh \in EraChoices(pitcher_era_cache, g, 1) :
      \E ea \in EraChoices(
                  get_pitcher_era_adjustment(pitcher_era_cache,
                                             g.pitchers[1], eh).cache, g, 2) :
        \E ih \in RosterChoices(g, g.home_team) :
          \E ia \in RosterChoices(g, g.away_team) :
            Iterate(g, eh, ea, ih, ia)

\* result_df = pd.DataFrame(updated_rows) (line 308), written to S3: the
\* frame filtered to league teams at line 293 is replaced before it is used
ResultFrame(rows) == rows

\* The loop is over: the rows go to S3.  pd.DataFrame([]) has no
\* 'home_team' column, so an empty run dies at line 293 with a KeyError.
Finish ==
    /\ pc = "loop"
    /\ idx = Len(df)
    /\ IF updated_rows = << >>
       THEN pc' = "aborted" /\ persisted' = persisted
       ELSE pc' = "saved" /\ persisted' = ResultFrame(updated_rows)
    /\ UNCHANGED << ratings, updated_rows, pitcher_era_cache, table, df, idx,
                    arrived, provider_calls, roster_calls, first_adj,
                    first_penalty, last, call >>

\* ------------------------------------------------------------------------
\* Spec: calculate_elo on a date-sorted frame of at most MaxGames rows
\* ------------------------------------------------------------------------
\* The frame is revealed row by row: load_all_games returns it sorted by
\* date (see SpecLoad), so each row is dated no earlier than the one before.
InOrder(g) == IF idx = 0 THEN TRUE ELSE df[idx].date <= g.date

Init == InitLoop /\ df = << >> /\ arrived = << >>

HistoricalGame ==
    \E g \in HistRows :
      /\ pc = "loop" /\ idx < MaxGames /\ InOrder(g)
      /\ df' = Append(df, g) /\ idx' = idx + 1 /\ arrived' = arrived
      /\ Yield(g)

ScheduleGame ==
    \E g \in SchedRows :
      /\ pc = "loop" /\ idx < MaxGames /\ InOrder(g)
      /\ df' = Append(df, g) /\ idx' = idx + 1 /\ arrived' = arrived
      /\ Yield(g)

Next == HistoricalGame \/ ScheduleGame \/ Finish

Spec == Init /\ [][Next]_vars

\* ------------------------------------------------------------------------
\* SpecUpdate: the update rules called directly
\* ------------------------------------------------------------------------
\* ratings tried: StartRating + s * GridStep for s in -GridSpan..GridSpan
GridSpan == 4
GridStep == 17321
\* score differences tried: 1..MaxDiff
MaxDiff == 3
RatingGrid == { StartRating + s * GridStep : s \in (0 - GridSpan)..GridSpan }

CallUpdateElo ==
    \E r1 \in RatingGrid, r2 \in RatingGrid, d \in 1..MaxDiff :
      \E u \in {update_elo(r1, r2, d)} :
        /\ call' = [fn |-> "update_elo", r1 |-> r1, r2 |-> r2,
                    score_diff |-> d, new1 |-> u[1], new2 |-> u[2]]
        /\ UNCHANGED << ratings, updated_rows, pitcher_era_cache, table,
                        persisted, pc, df, idx, arrived, provider_calls,
                        roster_calls, first_adj, first_penalty, last >>

CallUpdateEloYears ==
    \E r1 \in RatingGrid, r2 \in RatingGrid :
      \E u \in {update_elo_years(r1, r2)} :
        /\ call' = [fn |-> "update_elo_years", r1 |-> r1, r2 |-> r2,
                    score_diff |-> 0, new1 |-> u[1], new2 |-> u[2]]
        /\ UNCHANGED << ratings, updated_rows, pitcher_era_cache, table,
                        persisted, pc, df, idx, arrived, provider_calls,
                        roster_calls, first_adj, first_penalty, last >>

NextUpdate == CallUpdateElo \/ CallUpdateEloYears

SpecUpdate == Init /\ [][NextUpdate]_vars

\* ------------------------------------------------------------------------
\* SpecLoad: load_all_games on frames in any order, then the loop
\* ------------------------------------------------------------------------
\* rows per source frame
MaxInput == 2

\* rows of the Retrosheet files as load_gamelogs_from_s3 concatenates them
RawHistRows ==
    { [date |-> d, home_team |-> h, away_team |-> "BOS",
       home_score |-> IntScore(3), away_score |-> IntScore(1),
       pitchers |-> NoPitchers, injury_note |-> {}] :
         d \in {2023100, 2024100}, h \in {"NYY", "NYA"} }
\* rows of the cached schedule; pd.to_datetime(errors='coerce') leaves NaT
RawSchedRows ==
    { [date |-> d, home_team |-> "BOS", away_team |-> a,
       home_score |-> IntScore(1), away_score |-> IntScore(3),
       pitchers |-> <<"sale", "cole">>, injury_note |-> {}] :
         d \in {NaT, 2024200, 2026100}, a \in {"NYY", "NYA"} }

SeqsUpTo(S, n) == UNION { [1..m -> S] : m \in 0..n }

\* df_2025[df_2025['home_team'].isin(...) & df_2025['away_team'].isin(...)]
LeagueFilter(f) ==
    SelectSeq(f, LAMBDA r : r.home_team \in LeagueCodes
                            /\ r.away_team \in LeagueCodes)

\* df_combined.dropna(subset=['date', 'home_team', 'away_team'])
DropNa(f) == SelectSeq(f, LAMBDA r : r.date # NaT)

\* the arrangements of the rows f[i], i in S, with the dates never falling
RECURSIVE Arrangements(_, _)
Arrangements(f, S) ==
    IF S = {} THEN { << >> }
    ELSE UNION { { << f[i] >> \o t : t \in Arrangements(f, S \ {i}) } :
                 i \in { j \in S : \A k \in S : f[j].date <= f[k].date } }

\* a slip: the frame is returned as concatenated
sort_values_missing(f) == { f }

\* df.sort_values(by='date'): the default sort is not stable, rows of one
\* date come out in some order
sort_values(f) == Arrangements(f, DOMAIN f)

\* pd.concat([historical_df, df_2025]) after the league filter on df_2025
Concat(historical_df, df_2025) == historical_df \o LeagueFilter(df_2025)

\* load_all_games, from the two source frames: the frames it may return
load_all_games(historical_df, df_2025) ==
    sort_values(DropNa(Concat(historical_df, df_2025)))

InitLoad ==
    /\ InitLoop
    /\ \E h \in SeqsUpTo(RawHistRows, MaxInput),
          c \in SeqsUpTo(RawSchedRows, MaxInput) :
         /\ arrived = Concat(h, c)
         /\ df \in load_all_games(h, c)

\* iterrows yields the next row of the loaded frame
LoadedGame ==
    /\ pc = "loop" /\ idx < Len(df)
    /\ idx' = idx + 1 /\ df' = df /\ arrived' = arrived
    /\ Yield(df[idx + 1])

NextLoad == LoadedGame \/ Finish

SpecLoad == InitLoad /\ [][NextLoad]_vars

\* ------------------------------------------------------------------------
\* SpecYears: the loop of calculate_elo_across_years.py
\* ------------------------------------------------------------------------
\* elo_ratings = {team: 1500 for team in teams}, teams being the codes that
\* occur in the game logs
InitYears ==
    /\ \E teams \in SUBSET AllCodes :
         /\ Cardinality(teams) >= 2
         /\ ratings = [t \in teams |-> StartRating]
    /\ updated_rows = << >> /\ persisted = << >>
    /\ pc = "loop" /\ idx = 0
    /\ df = << >> /\ arrived = << >>
    /\ pitcher_era_cache = << >> /\ table = << >>
    /\ provider_calls = << >> /\ roster_calls = << >>
    /\ first_adj = << >> /\ first_penalty = << >>
    /\ last = NoLast /\ call = NoCall

\* the body of the loop over game_logs_df.sort_values("date") for row g;
\* ratings is elo_ratings, updated_rows is elo_history
IterateYears(g) ==
    LET home == g.home_team
        away == g.away_team
        hs   == g.home_score
        vs   == g.away_score
    IN  IF home \notin DOMAIN ratings \/ away \notin DOMAIN ratings
        THEN UNCHANGED << ratings, updated_rows >>
        ELSE IF ~(hs.num /\ vs.num)
        THEN UNCHANGED << ratings, updated_rows >>
        ELSE \E new \in { IF hs.v > vs.v
                          THEN update_elo_years(ratings[home], ratings[away])
                          ELSE IF vs.v > hs.v
                          THEN LET u == update_elo_years(ratings[away],
                                                         ratings[home])
                               IN  << u[2], u[1] >>
                          ELSE << ratings[home], ratings[away] >> } :
               /\ ratings' = Put(Put(ratings, home, new[1]), away, new[2])
               /\ updated_rows' = Append(updated_rows,
                      [date |-> g.date, home_team |-> home, away_team |-> away,
                       home_score |-> hs, away_score |-> vs,
                       home_elo_post |-> new[1], away_elo_post |-> new[2]])

\* the next row of the sorted game logs; its teams are among `teams`
YearsGame ==
    \E g \in HistRows :
      /\ pc = "loop" /\ idx < MaxGames /\ InOrder(g)
      /\ g.home_team \in DOMAIN ratings /\ g.away_team \in DOMAIN ratings
      /\ df' = Append(df, g) /\ idx' = idx + 1
      /\ IterateYears(g)
      /\ UNCHANGED << pitcher_era_cache, table, persisted, pc, arrived,
                      provider_calls, roster_calls, first_adj, first_penalty,
                      last, call >>

\* pd.DataFrame(elo_history).to_csv(...)
FinishYears ==
    /\ pc = "loop" /\ idx >= 1
    /\ pc' = "saved" /\ persisted' = updated_rows
    /\ UNCHANGED << ratings, updated_rows, pitcher_era_cache, table, df, idx,
                    arrived, provider_calls, roster_calls, first_adj,
                    first_penalty, last, call >>

NextYears == YearsGame \/ FinishYears

SpecYears == InitYears /\ [][NextYears]_vars

\* ------------------------------------------------------------------------
\* Properties
\* ------------------------------------------------------------------------
Home == last.game.home_team
Away == last.game.away_team
LastRow == updated_rows[Len(updated_rows)]
HomeOverlay == (last.home_pitcher_adj + last.home_injury_adj) * Milli
AwayOverlay == (last.away_pitcher_adj + last.away_injury_adj) * Milli
\* the iteration ran the loop body on a dated row
Ran == last.kind \in {"applied", "aborted"}
NumericTie ==
    /\ last.game.home_score.num /\ last.game.away_score.num
    /\ last.game.home_score.v = last.game.away_score.v
LedgerUntouched ==
    /\ (Home \in DOMAIN ratings) = last.had_home
    /\ (Away \in DOMAIN ratings) = last.had_away
    /\ Get(ratings, Home, StartRating) = last.pre_home
    /\ Get(ratings, Away, StartRating) = last.pre_away

\* C1: after every processed game the ledger holds, for the home team, the
\* post-update adjusted rating minus the home-field advantage minus the home
\* pitcher and injury deltas added before the update, and for the away team
\* the post-update adjusted rating minus its own deltas.
C1_LedgerStripsOverlays ==
    last.kind = "applied" =>
        /\ ratings[Home] = last.home_new - HFA - HomeOverlay
        /\ ratings[Away] = last.away_new - AwayOverlay

\* C2: a game with home_score == away_score never calls the update rule and
\* leaves the ledger ratings of both teams as they were before the game.
C2_TieLeavesLedger ==
    (last.kind = "applied" /\ NumericTie) =>
        /\ ~last.update_called
        /\ ratings[Home] = last.pre_home
        /\ ratings[Away] = last.pre_away

\* C3: for a game outside the adjustment window (year # 2025) the emitted
\* row has raw post-rating = adjusted post-rating on both sides; no pitcher
\* or injury delta was added, and the home-field advantage added before the
\* update is taken out again.
C3_OverlayTransparency ==
    (last.kind = "applied" /\ Year(last.game.date) # 2025) =>
        /\ LastRow.home_elo_post_raw = LastRow.home_elo_post
        /\ LastRow.away_elo_post_raw = LastRow.away_elo_post
        /\ HomeOverlay = 0 /\ AwayOverlay = 0
        /\ last.home_pitcher_adj = 0 /\ last.home_injury_adj = 0
        /\ last.away_pitcher_adj = 0 /\ last.away_injury_adj = 0
        /\ last.home_adj = last.pre_home + HFA
        /\ last.away_adj = last.pre_away
        /\ LastRow.home_elo_post = Round2(last.home_new - HFA)
        /\ LastRow.away_elo_post = Round2(last.away_new)

\* a decisive game outside the window is applied after a game inside it
\* whose overlays were not zero
C3_Witness ==
    /\ last.kind = "applied" /\ Year(last.game.date) = 2026
    /\ last.update_called
    /\ Len(updated_rows) = 2
    /\ \E n \in DOMAIN first_adj : first_adj[n].adj # 0

\* C4: for every call of an update rule the amount added to the winner-side
\* rating is the amount taken from the loser-side rating: the two returned
\* ratings sum to r1 + r2.
C4_ZeroSum ==
    call.fn # "none" =>
        /\ call.new1 - call.r1 = 0 - (call.new2 - call.r2)
        /\ call.new1 + call.new2 = call.r1 + call.r2

\* update_elo has been called for an underdog winner (r1 < r2) by more than one
\* run: rating has moved from the loser to the winner
C4_Witness ==
    /\ call.fn = "update_elo" /\ call.score_diff > 1
    /\ call.r1 < call.r2 /\ call.new1 > call.r1 /\ call.new2 < call.r2

\* C5: within a run the provider is asked at most once per pitcher name, and
\* every lookup of a name returns the delta its first lookup returned,
\* whether that first lookup found the player, found nobody or failed.
C5_PitcherCacheIdempotent ==
    /\ \A n \in DOMAIN provider_calls : provider_calls[n] <= 1
    /\ (Ran /\ last.apply) =>
          /\ last.home_pitcher_adj = first_adj[last.game.pitchers[1]].adj
          /\ last.away_pitcher_adj = first_adj[last.game.pitchers[2]].adj
          /\ last.era_home = "cached" =>
                pitcher_era_cache[last.game.pitchers[1]]
                    = first_adj[last.game.pitchers[1]].adj

\* a second game answers both pitcher lookups from the cache, one name first
\* looked up with a provider error and the other with nobody found
C5_Witness ==
    /\ Ran /\ last.apply
    /\ last.era_home = "cached" /\ last.era_away = "cached"
    /\ first_adj[last.game.pitchers[1]].kind = "error"
    /\ first_adj[last.game.pitchers[2]].kind = "none"

\* C6: when the provider fails for a pitcher lookup or a roster lookup of an
\* in-window game, that lookup contributes 0 (the away side keeps only the
\* -10 of a note that mentions it), both teams' ledger entries are written,
\* one row is emitted and the run is not aborted.
C6_ProviderFailureDegrades ==
    (Ran /\ last.apply) =>
        /\ last.era_home = "error" => last.home_pitcher_adj = 0
        /\ last.era_away = "error" => last.away_pitcher_adj = 0
        /\ last.roster_home.kind = "error" => last.home_injury_adj = 0
        /\ last.roster_away.kind = "error" =>
              last.away_injury_adj =
                  IF Lower[Away] \in last.game.injury_note THEN -10 ELSE 0
        /\ ( \/ last.era_home = "error" \/ last.era_away = "error"
             \/ last.roster_home.kind = "error"
             \/ last.roster_away.kind = "error" ) =>
              /\ last.kind = "applied"
              /\ pc # "aborted"
              /\ Len(updated_rows) = last.rows_before + 1
              /\ LastRow.home_team = Home /\ LastRow.away_team = Away
              /\ LastRow.date = Strftime(last.game.date)
              /\ Home \in DOMAIN ratings /\ Away \in DOMAIN ratings
              /\ ratings[Home] = last.home_new - HFA
              /\ ratings[Away] = last.away_new

\* the first game's pitcher lookup failed and the run went on to a second
\* game, whose away roster lookup failed while the note names the away team
C6_Witness ==
    /\ last.kind = "applied" /\ last.apply
    /\ Len(updated_rows) = 2
    /\ last.era_home = "cached"
    /\ first_adj[last.game.pitchers[1]].kind = "error"
    /\ last.roster_away.kind = "error"
    /\ Lower[Away] \in last.game.injury_note
    /\ pc = "loop"

\* C7: no row is applied to the ledger after a row with a strictly later
\* date, whatever the order in which the rows arrived.
C7_DateOrder ==
    last.kind # "none" => last.prev_date <= last.game.date

\* the rows arrived with a later date first and have all been applied
C7_Witness ==
    /\ last.kind = "applied" /\ idx = Len(df) /\ idx >= 2
    /\ \E i \in DOMAIN arrived : \E j \in DOMAIN arrived :
          i < j /\ arrived[j].date # NaT /\ arrived[i].date > arrived[j].date

\* C8: a row with a non-numeric home or away score is skipped: the run is
\* not aborted, no row is emitted for it and the ledger is unchanged.
C8_NonNumericSkipped ==
    (last.kind # "none"
       /\ (~last.game.home_score.num \/ ~last.game.away_score.num)) =>
        /\ pc # "aborted"
        /\ Len(updated_rows) = last.rows_before
        /\ LedgerUntouched

\* C9: a row with a team code outside the league set is skipped: no ledger
\* entry is created or changed, no row is emitted for it, none persisted.
\* (Stated for rows whose scores are numbers, so that what is seen is the
\* handling of the team code alone.)
C9_UnknownTeamSkipped ==
    /\ (last.kind # "none"
          /\ last.game.home_score.num /\ last.game.away_score.num
          /\ (Home \notin LeagueCodes \/ Away \notin LeagueCodes)) =>
           /\ LedgerUntouched
           /\ Len(updated_rows) = last.rows_before
    /\ \A i \in DOMAIN persisted :
           /\ persisted[i].home_team \in LeagueCodes
           /\ persisted[i].away_team \in LeagueCodes

\* C10: in the window the injury delta of each side is -10 for an injured
\* list of more than 3 and 0 otherwise, less a further 10 if the note names
\* that side's team; outside the window it is 0.
C10_InjuryDelta ==
    Ran =>
        IF last.apply
        THEN /\ last.roster_home.kind = "ok" =>
                  last.home_injury_adj =
                      (IF last.roster_home.il > 3 THEN -10 ELSE 0)
                      - (IF Lower[Home] \in last.game.injury_note
                         THEN 10 ELSE 0)
             /\ last.roster_away.kind = "ok" =>
                  last.away_injury_adj =
                      (IF last.roster_away.il > 3 THEN -10 ELSE 0)
                      - (IF Lower[Away] \in last.game.injury_note
                         THEN 10 ELSE 0)
        ELSE last.home_injury_adj = 0 /\ last.away_injury_adj = 0

\* C11: within a run the injured-roster provider is asked at most once per
\* team, and a later in-window game of a team takes the penalty that the
\* team's first lookup gave.
C11_RosterOncePerTeam ==
    /\ \A t \in DOMAIN roster_calls : roster_calls[t] <= 1
    /\ (Ran /\ last.apply) =>
          /\ get_injury_penalty(Home, last.roster_home)
                 = first_penalty[Home].penalty
          /\ get_injury_penalty(Away, last.roster_away)
                 = first_penalty[Away].penalty

\* the ledger's total over all team codes, a team without an entry counting
\* as 1500
RECURSIVE TotalRating(_)
TotalRating(S) ==
    IF S = {} THEN 0
    ELSE LET t == CHOOSE x \in S : TRUE
         IN  Get(ratings, t, StartRating) + TotalRating(S \ {t})

\* no game of the adjustment window has been processed so far
NoWindowGameYet == first_penalty = << >>

\* C12: while every processed game lies outside the adjustment window (the
\* two teams of a row are always distinct), the ledger's total over all
\* teams, an unseen team counting as 1500, is what it was at the start; a
\* decisive game is rated with the home-field advantage on the home side
\* and the stored home rating carries none of it.
C12_SumConserved ==
    NoWindowGameYet =>
        /\ TotalRating(AllCodes) = Cardinality(AllCodes) * StartRating
        /\ (last.kind = "applied" /\ last.update_called) =>
              /\ last.home_adj = last.pre_home + HFA
              /\ ratings[Home] = last.home_new - HFA
              /\ ratings[Home] + ratings[Away] = last.pre_home + last.pre_away

\* two games outside the window have been applied, the second one decisive
\* and moving rating between a league team and a code outside the league
C12_Witness ==
    /\ NoWindowGameYet
    /\ last.kind = "applied" /\ last.update_called
    /\ Len(updated_rows) = 2
    /\ ratings[Home] # last.pre_home
    /\ "NYA" \in DOMAIN ratings /\ ratings["NYA"] # StartRating
    /\ \E t \in LeagueCodes : ratings[t] # StartRating
====
